---------------------------- MODULE Spec2Model ----------------------------
(***************************************************************************)
(* A model of CFST (Go edition): address sampling (GenerateIPs), the       *)
(* reachability probe (ScanPing), the PoP resolver (DetectColo, GetColo),  *)
(* the block gate (CheckBlocked), the scoring function (CalcScore), the    *)
(* download-test loop (RunDownloadTest), their sequence in RunCLI, and the *)
(* event stream of the /api/test handler (RunWeb).                         *)
(*                                                                         *)
(* Units.  Go computes with float64; the model computes with integers in   *)
(* fixed point, on inputs for which every intermediate value is exact:     *)
(*   TCPLatency     milliseconds                                           *)
(*   DownloadSpeed  MB/s                                                   *)
(*   StopThreshold  MB/s                                                   *)
(*   Score          hundredths of a point (10500 is 105.0)                 *)
(* A dotted string ("10.0.0.1", "10.0.0") is the sequence of its parts     *)
(* (<<10,0,0,1>>, <<10,0,0>>): strings.Split(s, ".") of the code.          *)
(***************************************************************************)
EXTENDS Integers, Sequences, FiniteSets, TLC

VARIABLES
    stage,        \* which function of the program is running
    cfg,          \* Config: the fields the modelled functions read
    candidates,   \* []NodeResult handed to RunDownloadTest (mutated in place)
    i,            \* RunDownloadTest: loop index (1-based)
    results,      \* RunDownloadTest: var results []NodeResult
    fastCount,    \* RunDownloadTest: var fastCount int
    skipped,      \* RunDownloadTest: var skipped int
    rows,         \* history: arguments of the progressRow calls, in order
    fastExits,    \* history: number of fastExitHost calls
    checked,      \* history: ids on which CheckBlocked was called, in order
    blockedIds,   \* history: ids CheckBlocked classified as blocked
    benched,      \* history: ids on which DownloadTest was called, in order
    ret,          \* the list RunDownloadTest returned
    entry,        \* history: candidates as handed to RunDownloadTest
    outcome,      \* CheckBlocked on its own: what the request came to
    blocked,      \* CheckBlocked on its own: the value returned
    ranges,       \* GenerateIPs: the range list (the built-in table or the file's)
    ips,          \* GenerateIPs: var ips []string
    seen,         \* GenerateIPs, unique mode: the keys of the seen map set to true
    attempts,     \* GenerateIPs, unique mode: attempts
    ri,           \* GenerateIPs, bulk mode: position in ranges (1-based)
    di,           \* GenerateIPs, bulk mode: draws made from ranges[ri]
    pool,         \* history, bulk mode: ips before the shuffle
    derived,      \* history, unique mode: derived[k] iff ips[k] came from a CIDR
    spawned,      \* ScanPing: goroutines started by the loop over ips
    workers,      \* ScanPing: per goroutine, its position and its locals lat, d, v
    sem,          \* ScanPing: tokens in the channel sem
    doneCount,    \* ScanPing: the atomic counter done
    validNodes,   \* ScanPing: var validNodes []NodeResult
    mu,           \* ScanPing: the goroutine holding mu, 0 when free
    scanLog,      \* history: arguments of the ScanPing progress calls, in order
    cspawned,     \* DetectColo: goroutines started by the loop over candidates
    cworkers,     \* DetectColo: per goroutine, its position
    csem,         \* DetectColo: tokens in the channel sem
    cdone,        \* DetectColo: the atomic counter done
    coloLog,      \* history: arguments of the DetectColo progress calls, in order
    replies,      \* environment: what the trace requests of this run come to
    traces,       \* history: per candidate, the answer its GetColo call received
    events,       \* /api/test: the types of the events sent on the stream, in order
    query         \* /api/test: the query parameters of the request

dlVars    == <<candidates, i, results, fastCount, skipped, rows, fastExits,
               checked, blockedIds, benched, ret, entry>>
blockVars == <<outcome, blocked>>
genVars   == <<ranges, ips, seen, attempts, ri, di, pool, derived>>
scanVars  == <<spawned, workers, sem, doneCount, validNodes, mu, scanLog>>
coloVars  == <<cspawned, cworkers, csem, cdone, coloLog, replies, traces>>
webVars   == <<events, query>>
vars      == <<stage, cfg, dlVars, blockVars, genVars, scanVars, coloVars,
               webVars>>

---------------------------------------------------------------------------
(* Bounds of the model. *)

\* longest candidate list handed to RunDownloadTest
MaxCands == 7
\* largest DownloadNum (quota) tried
MaxQuota == 7
\* largest download speed handed to CalcScore on its own, MB/s
MaxSpeed == 41
\* largest latency handed to CalcScore on its own, ms
MaxLat == 235
\* largest HTTP status handed to CheckBlocked on its own
MaxStatus == 520
\* largest MaxScan (address quota) handed to GenerateIPs
MaxN == 2
\* largest MaxScan when the whole of RunCLI runs
MaxPipeN == 2
\* largest ScanConcurrent (probe width)
MaxWidth == 2
\* longest address list handed to ScanPing on its own
MaxIps == 2
\* candidates handed to DetectColo beyond its 20 slots
MaxOver == 2
\* longest candidate list handed to DetectColo on its own
MaxColo == 2

(* Program constants. *)

\* cfg.Port default
DefaultPort == 443
\* cfg.MaxScan default
DefaultMaxScan == 2000
\* cfg.DownloadNum default
DefaultDownloadNum == 10
\* cfg.ScanConcurrent default
DefaultScanConcurrent == 200
\* DetectColo: sem := make(chan struct{}, 20)
ColoWidth == 20
\* cfg.StopThreshold default, MB/s
DefaultStopThreshold == 25
\* fastCount >= 5
FastExitCount == 5
\* resp.StatusCode >= 400
BlockedFrom == 400

\* candidates[i].Colo = "429"
RateLimited == "429"
\* GetColo: no colo= line in the response
Unknown == "UNK"
\* GetColo: the request failed
ProbeError == "ERR"

---------------------------------------------------------------------------
(* NodeResult.  id is a history field: the position in candidates the      *)
(* value was copied from (Go's struct has no such field).                  *)

NodeResult(id, ip, port, lat, colo) ==
    [id |-> id, IP |-> ip, Port |-> port, TCPLatency |-> lat,
     DownloadSpeed |-> 0, Colo |-> colo, Score |-> 0]

(* CalcScore, in hundredths of a point. *)
ScoreSpeed(n) ==
    IF n.DownloadSpeed < 40 THEN (n.DownloadSpeed * 10000) \div 40 ELSE 10000

\* a slip: the floor at 0 is left out
ScoreLatencyUnfloored(n) == 10000 - (n.TCPLatency - 30) * 50

ScoreLatency(n) ==
    LET s == 10000 - (n.TCPLatency - 30) * 50
    IN  IF s < 0 THEN 0 ELSE s

Bonus(n) ==
    IF n.Colo # Unknown /\ n.Colo # ProbeError /\ n.Colo # "" THEN 500 ELSE 0

CalcScore(n) ==
    [n EXCEPT !.Score = (ScoreSpeed(n) * 8) \div 10
                        + (ScoreLatency(n) * 2) \div 10 + Bonus(n)]

---------------------------------------------------------------------------
(* CheckBlocked.  What the request came to is one of                       *)
(*   [kind |-> "parse"]                url.Parse(testURL) failed           *)
(*   [kind |-> "transport"]            client.Do returned an error         *)
(*   [kind |-> "status", code |-> c]   a response with status c            *)

ParseFailure     == [kind |-> "parse", code |-> 0]
TransportFailure == [kind |-> "transport", code |-> 0]
Response(c)      == [kind |-> "status", code |-> c]

\* a slip: only the listed statuses count, the >= 400 test is left out
CheckBlockedListed(o) ==
    CASE o.kind = "parse"     -> FALSE
      [] o.kind = "transport" -> TRUE
      [] OTHER -> o.code \in {429, 403, 400, 404, 403}

CheckBlocked(o) ==
    CASE o.kind = "parse"     -> FALSE
      [] o.kind = "transport" -> TRUE
      [] OTHER ->
           IF o.code \in {429, 403, 400, 404, 403} THEN TRUE
           ELSE IF o.code >= BlockedFrom THEN TRUE
           ELSE FALSE

\* what a block check inside RunDownloadTest may come to
GateOutcomes ==
    {ParseFailure, TransportFailure, Response(200), Response(302),
     Response(403), Response(429), Response(503)}

\* cfg.URL default
DefaultURL == "https://speed.cloudflare.com/__down?bytes=50000000"

\* the test URLs tried: the default, one without a scheme, one with an
\* invalid escape
URLs == {DefaultURL, "speed.cloudflare.com/__down", "%zz"}

\* url.Parse(testURL) on the URLs tried: "%zz" is rejected (invalid URL
\* escape) and the result is (nil, err); a string without "scheme://" is a
\* path, its scheme and host are empty
UrlParse(u) ==
    CASE u = "%zz" -> [err |-> TRUE, scheme |-> ""]
      [] u = "speed.cloudflare.com/__down" -> [err |-> FALSE, scheme |-> ""]
      [] OTHER -> [err |-> FALSE, scheme |-> "https"]

\* what a block check on testURL may come to: the parse error when the URL
\* does not parse, the transport error of client.Do when it has no scheme
\* (unsupported protocol scheme), anything but the parse error otherwise
Gate(u) ==
    IF UrlParse(u).err THEN {ParseFailure}
    ELSE IF UrlParse(u).scheme = "" THEN {TransportFailure}
    ELSE GateOutcomes \ {ParseFailure}

---------------------------------------------------------------------------
(* sort.Slice on a slice of at most 12 elements is an insertion sort       *)
(* (pdqsort_func calls insertionSortLessFunc for length <= 12).            *)

\* a slip: the comparison is turned around
ScoreLessAscending(a, b) == a.Score < b.Score

\* results[i].Score > results[j].Score
ScoreLess(a, b) == a.Score > b.Score

Swap(s, j, k) == [s EXCEPT ![j] = s[k], ![k] = s[j]]

RECURSIVE SiftByScore(_, _)
SiftByScore(s, j) ==
    IF j > 1 /\ ScoreLess(s[j], s[j-1])
    THEN SiftByScore(Swap(s, j, j-1), j-1)
    ELSE s

RECURSIVE InsertionSortByScore(_, _)
InsertionSortByScore(s, k) ==
    IF k > Len(s) THEN s
    ELSE InsertionSortByScore(SiftByScore(s, k), k+1)

SortByScore(s) == InsertionSortByScore(s, 2)

---------------------------------------------------------------------------
(* RunDownloadTest.  One action is one iteration of the loop over          *)
(* candidates; the iteration that leaves the loop also sorts and returns.  *)

\* a slip: > for >=
QuotaReachedLate(res) == Len(res) > cfg.DownloadNum

\* len(results) >= cfg.DownloadNum
QuotaReached(res) == Len(res) >= cfg.DownloadNum

\* a slip: > for >=
IsFastStrict(speed) == speed > cfg.StopThreshold

\* speed >= cfg.StopThreshold
IsFast(speed) == speed >= cfg.StopThreshold

\* what DownloadTest may measure, MB/s
Speeds == {0, 30, 50}

\* sendEvent of the /api/test handler; RunCLI's callbacks print instead
Send(evs, type) == IF cfg.WebMode THEN Append(evs, type) ELSE evs

\* the loop is left (break, or no candidate is left): sort and return
Leave(res) ==
    /\ ret' = SortByScore(res)
    /\ stage' = "done"

\* the loop goes on to the next candidate
GoOn ==
    /\ ret' = ret
    /\ stage' = stage

\* the candidate list is empty: the loop body never runs
TestNone ==
    /\ stage = "test"
    /\ Len(candidates) = 0
    /\ Leave(results)
    /\ UNCHANGED <<cfg, candidates, i, results, fastCount, skipped, rows,
                   fastExits, checked, blockedIds, benched, entry, blockVars, genVars,
                   scanVars, coloVars, webVars>>

\* a slip: the continue is left out, the discarded candidate is appended
TestDiscardCounted ==
    /\ stage = "test"
    /\ i <= Len(candidates)
    /\ \E o \in Gate(cfg.URL) :
         /\ CheckBlocked(o)
         /\ cfg.Skip429
         /\ LET res == Append(results, candidates[i])
            IN  /\ checked' = Append(checked, candidates[i].id)
                /\ blockedIds' = blockedIds \cup {candidates[i].id}
                /\ skipped' = skipped + 1
                /\ results' = res
                /\ i' = i + 1
                /\ IF QuotaReached(res) \/ i = Len(candidates)
                   THEN Leave(res) ELSE GoOn
    /\ events' = Send(events, "status")
    /\ UNCHANGED <<cfg, candidates, fastCount, rows, fastExits,
                   benched, entry, blockVars, genVars,
                   scanVars, coloVars, query>>

\* CheckBlocked is true and cfg.Skip429 is set: continue
TestDiscard ==
    /\ stage = "test"
    /\ i <= Len(candidates)
    /\ \E o \in Gate(cfg.URL) :
         /\ CheckBlocked(o)
         /\ cfg.Skip429
         /\ checked' = Append(checked, candidates[i].id)
         /\ blockedIds' = blockedIds \cup {candidates[i].id}
         /\ skipped' = skipped + 1
         /\ i' = i + 1
         /\ IF i = Len(candidates) THEN Leave(results) ELSE GoOn
    /\ events' = Send(events, "status")
    /\ UNCHANGED <<cfg, candidates, results, fastCount, rows, fastExits,
                   benched, entry, blockVars, genVars,
                   scanVars, coloVars, query>>

\* a slip: the blocked candidate is recorded without the "429" mark
TestRecordUnmarked ==
    /\ stage = "test"
    /\ i <= Len(candidates)
    /\ \E o \in Gate(cfg.URL) :
         /\ CheckBlocked(o)
         /\ ~cfg.Skip429
         /\ LET c   == [candidates[i] EXCEPT !.DownloadSpeed = 0, !.Score = 0]
                res == Append(results, c)
            IN  /\ checked' = Append(checked, c.id)
                /\ blockedIds' = blockedIds \cup {c.id}
                /\ skipped' = skipped + 1
                /\ candidates' = [candidates EXCEPT ![i] = c]
                /\ rows' = Append(rows, c)
                /\ results' = res
                /\ i' = i + 1
                /\ IF QuotaReached(res) \/ i = Len(candidates)
                   THEN Leave(res) ELSE GoOn
    /\ events' = Send(Send(events, "status"), "progress_download")
    /\ UNCHANGED <<cfg, fastCount, fastExits, benched, entry, blockVars, genVars,
                   scanVars, coloVars, query>>

\* CheckBlocked is true and cfg.Skip429 is not set: the candidate is recorded
TestRecord ==
    /\ stage = "test"
    /\ i <= Len(candidates)
    /\ \E o \in Gate(cfg.URL) :
         /\ CheckBlocked(o)
         /\ ~cfg.Skip429
         /\ LET c   == [candidates[i] EXCEPT !.DownloadSpeed = 0,
                                             !.Colo = RateLimited,
                                             !.Score = 0]
                res == Append(results, c)
            IN  /\ checked' = Append(checked, c.id)
                /\ blockedIds' = blockedIds \cup {c.id}
                /\ skipped' = skipped + 1
                /\ candidates' = [candidates EXCEPT ![i] = c]
                /\ rows' = Append(rows, c)
                /\ results' = res
                /\ i' = i + 1
                /\ IF QuotaReached(res) \/ i = Len(candidates)
                   THEN Leave(res) ELSE GoOn
    /\ events' = Send(Send(events, "status"), "progress_download")
    /\ UNCHANGED <<cfg, fastCount, fastExits, benched, entry, blockVars, genVars,
                   scanVars, coloVars, query>>

\* CheckBlocked is false: DownloadTest, CalcScore, the stop conditions
TestBenchmark ==
    /\ stage = "test"
    /\ i <= Len(candidates)
    /\ \E o \in Gate(cfg.URL), speed \in Speeds :
         /\ ~CheckBlocked(o)
         /\ ~UrlParse(cfg.URL).err
         /\ LET c    == CalcScore([candidates[i] EXCEPT !.DownloadSpeed = speed])
                res  == Append(results, c)
                fc   == IF IsFast(speed) THEN fastCount + 1 ELSE fastCount
                exit == IsFast(speed) /\ fc >= FastExitCount
            IN  /\ checked' = Append(checked, c.id)
                /\ benched' = Append(benched, c.id)
                /\ candidates' = [candidates EXCEPT ![i] = c]
                /\ results' = res
                /\ rows' = Append(rows, c)
                /\ fastCount' = fc
                /\ fastExits' = IF exit THEN fastExits + 1 ELSE fastExits
                /\ events' =
                     LET row == IF c.Colo # RateLimited \/ ~cfg.Skip429
                                THEN Send(Send(events, "status"),
                                          "progress_download")
                                ELSE Send(events, "status")
                     IN  IF exit THEN Send(row, "fast_exit") ELSE row
                /\ i' = i + 1
                /\ IF exit \/ QuotaReached(res) \/ i = Len(candidates)
                   THEN Leave(res) ELSE GoOn
    /\ UNCHANGED <<cfg, skipped, blockedIds, entry, blockVars, genVars,
                   scanVars, coloVars, query>>

\* CheckBlocked is false and DownloadTest is called with a URL that does
\* not parse: parsedURL is nil (the error of url.Parse is dropped) and
\* parsedURL.Hostname() dereferences it; the panic is not recovered in
\* RunDownloadTest or RunCLI
TestAbort ==
    /\ stage = "test"
    /\ i <= Len(candidates)
    /\ \E o \in Gate(cfg.URL) :
         /\ ~CheckBlocked(o)
         /\ UrlParse(cfg.URL).err
    /\ checked' = Append(checked, candidates[i].id)
    /\ benched' = Append(benched, candidates[i].id)
    /\ stage' = "panic"
    /\ events' = Send(events, "status")
    /\ UNCHANGED <<cfg, candidates, i, results, fastCount, skipped, rows,
                   fastExits, blockedIds, ret, entry, blockVars, genVars,
                   scanVars, coloVars, query>>

---------------------------------------------------------------------------
(* GenerateIPs.  A range entry is a line of the range list: a CIDR         *)
(* ("a.b.c.d/ones", strings.Contains(r, "/")) or a literal.                *)

CIDR(ip, ones) == [cidr |-> TRUE, text |-> ip, ones |-> ones]
Literal(text)  == [cidr |-> FALSE, text |-> text, ones |-> 0]

\* the empty string
Empty == <<>>

RECURSIVE Pow2(_)
Pow2(n) == IF n = 0 THEN 1 ELSE 2 * Pow2(n - 1)

\* big.NewInt(0).SetBytes(ip.To4())
ToInt(ip) == ((ip[1] * 256 + ip[2]) * 256 + ip[3]) * 256 + ip[4]

\* net.IP(4 bytes).String()
FromInt(n) ==
    <<n \div 16777216, (n \div 65536) % 256, (n \div 256) % 256, n % 256>>

\* the values of rand.Intn(maxHost) + 1 the model draws, out of 1..maxHost
Offsets(maxHost) == {1, 2, maxHost}

\* randIPFromCIDR: the strings it may return
RandIPFromCIDR(r) ==
    IF r.ones \notin 0..32 THEN {Empty}
    ELSE LET hostBits == 32 - r.ones
             base     == ToInt(r.text) - (ToInt(r.text) % Pow2(hostBits))
         IN  IF hostBits <= 2 THEN {FromInt(base)}
             ELSE {FromInt(base + o) : o \in Offsets(Pow2(hostBits) - 2)}

\* a slip: the key is the whole address
SubnetKeyWhole(parts) == parts

\* parts[0] + "." + parts[1] + "." + parts[2]
SubnetKey(parts) == SubSeq(parts, 1, 3)

\* unique mode: the loop condition
UniqueGoesOn == Len(ips) < cfg.MaxScan /\ attempts < cfg.MaxScan * 5

\* unique mode: one iteration of the loop
UniqueDraw ==
    /\ stage = "unique"
    /\ UniqueGoesOn
    /\ attempts' = attempts + 1
    /\ \E k \in DOMAIN ranges :
         LET r == ranges[k]
         IN  IF ~r.cidr
             THEN IF r.text \notin seen
                  THEN /\ seen' = seen \cup {r.text}
                       /\ ips' = Append(ips, r.text)
                       /\ derived' = Append(derived, FALSE)
                  ELSE UNCHANGED <<seen, ips, derived>>
             ELSE \E ip \in RandIPFromCIDR(r) :
                    IF ip # Empty /\ Len(ip) = 4 /\ SubnetKey(ip) \notin seen
                    THEN /\ seen' = seen \cup {SubnetKey(ip)}
                         /\ ips' = Append(ips, ip)
                         /\ derived' = Append(derived, TRUE)
                    ELSE UNCHANGED <<seen, ips, derived>>
    /\ UNCHANGED <<stage, cfg, dlVars, blockVars, ranges, ri, di, pool,
                   scanVars, coloVars, webVars>>

\* unique mode: the loop condition fails, return ips
UniqueReturn ==
    /\ stage = "unique"
    /\ ~UniqueGoesOn
    /\ stage' = "generated"
    /\ UNCHANGED <<cfg, dlVars, blockVars, genVars, scanVars, coloVars, webVars>>

\* maxScan/len(ranges) + 3
PerRange == cfg.MaxScan \div Len(ranges) + 3

\* a slip: the cut is left out
ShuffledUncut(s) ==
    { [k \in 1..Len(s) |-> s[f[k]]] :
        f \in { g \in [1..Len(s) -> 1..Len(s)] :
                  \A a, b \in 1..Len(s) : a # b => g[a] # g[b] } }

\* the lists rand.Shuffle and ips[:maxScan] may leave of s: the first
\* min(maxScan, len) elements of a permutation of s
ShuffledAndCut(s) ==
    LET m == IF Len(s) > cfg.MaxScan THEN cfg.MaxScan ELSE Len(s)
    IN  { [k \in 1..m |-> s[f[k]]] :
            f \in { g \in [1..m -> 1..Len(s)] :
                      \A a, b \in 1..m : a # b => g[a] # g[b] } }

\* bulk mode: one literal appended or one address drawn; after the last one
\* the list is shuffled, cut and returned
BulkDraw ==
    /\ stage = "bulk"
    /\ ri <= Len(ranges)
    /\ LET r    == ranges[ri]
           last == ~r.cidr \/ di + 1 >= PerRange
       IN  /\ ri' = IF last THEN ri + 1 ELSE ri
           /\ di' = IF last THEN 0 ELSE di + 1
           /\ \E ip \in (IF r.cidr THEN RandIPFromCIDR(r) ELSE {r.text}) :
                LET all == IF r.cidr /\ ip = Empty THEN ips ELSE Append(ips, ip)
                IN  IF last /\ ri = Len(ranges)
                    THEN /\ pool' = all
                         /\ ips' \in ShuffledAndCut(all)
                         /\ stage' = "generated"
                    ELSE /\ pool' = pool
                         /\ ips' = all
                         /\ stage' = stage
    /\ UNCHANGED <<cfg, dlVars, blockVars, ranges, seen, attempts, derived,
                   scanVars, coloVars, webVars>>

---------------------------------------------------------------------------
(* ScanPing.  One action is one step of the loop over ips or of one        *)
(* goroutine; goroutine k probes ips[k].                                   *)

\* what TCPPing may return, ms (0: the connection failed)
PingTimes == {0, 20, 95}

\* a goroutine not started yet
NoWorker == [pc |-> "idle", lat |-> 0, d |-> 0, v |-> 0, buf |-> <<>>]

\* RunCLI: GenerateIPs has returned ips (its other locals are gone) and
\* ScanPing(ips, cfg.Port, cfg.ScanConcurrent, ...) is called
StartScan ==
    /\ stage = "generated"
    /\ cfg.ScanConcurrent >= 0
    /\ stage' = "scan"
    /\ workers' = [k \in DOMAIN ips |-> NoWorker]
    /\ seen' = {}
    /\ attempts' = 0
    /\ ri' = 1
    /\ di' = 0
    /\ pool' = <<>>
    /\ derived' = <<>>
    /\ events' = Send(events, "status")
    /\ UNCHANGED <<cfg, dlVars, blockVars, ranges, ips, spawned, sem,
                   doneCount, validNodes, mu, scanLog, coloVars, query>>

\* ScanPing is called with a negative concurrency: make(chan struct{}, n)
\* panics (makechan: size out of range)
ScanAbort ==
    /\ stage = "generated"
    /\ cfg.ScanConcurrent < 0
    /\ stage' = "panic"
    /\ events' = Send(events, "status")
    /\ UNCHANGED <<cfg, dlVars, blockVars, genVars, scanVars, coloVars, query>>

\* wg.Add(1); sem <- struct{}{}; go func(ip): the send blocks while the
\* channel holds cap(sem) tokens (always, when the capacity is 0: nothing
\* receives before a goroutine has been started)
ScanSpawn ==
    /\ stage = "scan"
    /\ spawned < Len(ips)
    /\ sem < cfg.ScanConcurrent
    /\ sem' = sem + 1
    /\ spawned' = spawned + 1
    /\ workers' = [workers EXCEPT ![spawned + 1].pc = "ping"]
    /\ UNCHANGED <<stage, cfg, dlVars, blockVars, genVars, doneCount,
                   validNodes, mu, scanLog, coloVars, webVars>>

\* lat := TCPPing(...)
ScanFirstPing(k) ==
    /\ stage = "scan"
    /\ workers[k].pc = "ping"
    /\ \E lat \in PingTimes :
         workers' = [workers EXCEPT ![k].lat = lat,
                       ![k].pc = IF lat <= 0 THEN "retry" ELSE "count"]
    /\ UNCHANGED <<stage, cfg, dlVars, blockVars, genVars, spawned, sem,
                   doneCount, validNodes, mu, scanLog, coloVars, webVars>>

\* time.Sleep; lat = TCPPing(...)
ScanRetry(k) ==
    /\ stage = "scan"
    /\ workers[k].pc = "retry"
    /\ \E lat \in PingTimes :
         workers' = [workers EXCEPT ![k].lat = lat, ![k].pc = "count"]
    /\ UNCHANGED <<stage, cfg, dlVars, blockVars, genVars, spawned, sem,
                   doneCount, validNodes, mu, scanLog, coloVars, webVars>>

\* d := done.Add(1)
ScanCount(k) ==
    /\ stage = "scan"
    /\ workers[k].pc = "count"
    /\ doneCount' = doneCount + 1
    /\ workers' = [workers EXCEPT ![k].d = doneCount + 1, ![k].pc = "lock"]
    /\ UNCHANGED <<stage, cfg, dlVars, blockVars, genVars, spawned, sem,
                   validNodes, mu, scanLog, coloVars, webVars>>

\* a slip: the goroutine goes on without holding mu
ScanLockFree(k) ==
    /\ stage = "scan"
    /\ workers[k].pc = "lock"
    /\ mu' = k
    /\ workers' = [workers EXCEPT ![k].pc = "append"]
    /\ UNCHANGED <<stage, cfg, dlVars, blockVars, genVars, spawned, sem,
                   doneCount, validNodes, scanLog, coloVars, webVars>>

\* mu.Lock()
ScanLock(k) ==
    /\ stage = "scan"
    /\ workers[k].pc = "lock"
    /\ mu = 0
    /\ mu' = k
    /\ workers' = [workers EXCEPT ![k].pc = "append"]
    /\ UNCHANGED <<stage, cfg, dlVars, blockVars, genVars, spawned, sem,
                   doneCount, validNodes, scanLog, coloVars, webVars>>

\* if lat > 0: append(validNodes, NodeResult{...}) is evaluated on the
\* slice as it is read now; its value is assigned in the next step
ScanAppend(k) ==
    /\ stage = "scan"
    /\ workers[k].pc = "append"
    /\ workers' = [workers EXCEPT
                     ![k].buf = IF workers[k].lat > 0
                                THEN Append(validNodes,
                                            NodeResult(k, ips[k], cfg.Port,
                                                       workers[k].lat, ""))
                                ELSE <<>>,
                     ![k].pc = "store"]
    /\ UNCHANGED <<stage, cfg, dlVars, blockVars, genVars, spawned, sem,
                   doneCount, validNodes, mu, scanLog, coloVars, webVars>>

\* validNodes = (the appended slice), if lat > 0; v := len(validNodes);
\* mu.Unlock()
ScanStore(k) ==
    /\ stage = "scan"
    /\ workers[k].pc = "store"
    /\ LET nodes == IF workers[k].lat > 0 THEN workers[k].buf ELSE validNodes
       IN  /\ validNodes' = nodes
           /\ workers' = [workers EXCEPT ![k].v = Len(nodes), ![k].buf = <<>>,
                                         ![k].pc = "report"]
    /\ mu' = 0
    /\ UNCHANGED <<stage, cfg, dlVars, blockVars, genVars, spawned, sem,
                   doneCount, scanLog, coloVars, webVars>>

\* progressCallback(int(d), total, v)
ScanReport(k) ==
    /\ stage = "scan"
    /\ workers[k].pc = "report"
    /\ scanLog' = Append(scanLog, [done |-> workers[k].d, total |-> Len(ips),
                                   valid |-> workers[k].v])
    /\ workers' = [workers EXCEPT ![k].pc = "exit"]
    /\ events' = IF workers[k].d % 10 = 0 \/ workers[k].d = Len(ips)
                 THEN Send(events, "progress_scan")
                 ELSE events
    /\ UNCHANGED <<stage, cfg, dlVars, blockVars, genVars, spawned, sem,
                   doneCount, validNodes, mu, coloVars, query>>

\* the deferred calls: <-sem, wg.Done()
ScanExit(k) ==
    /\ stage = "scan"
    /\ workers[k].pc = "exit"
    /\ sem' = sem - 1
    /\ workers' = [workers EXCEPT ![k].pc = "gone"]
    /\ UNCHANGED <<stage, cfg, dlVars, blockVars, genVars, spawned,
                   doneCount, validNodes, mu, scanLog, coloVars, webVars>>

\* history: GetColo has not been called for this candidate
NoTrace == [err |-> FALSE, lines |-> <<>>, none |-> TRUE]

\* validNodes[i].TCPLatency < validNodes[j].TCPLatency
LatencyLess(a, b) == a.TCPLatency < b.TCPLatency

RECURSIVE SiftByLatency(_, _)
SiftByLatency(s, j) ==
    IF j > 1 /\ LatencyLess(s[j], s[j-1])
    THEN SiftByLatency(Swap(s, j, j-1), j-1)
    ELSE s

RECURSIVE InsertionSortByLatency(_, _)
InsertionSortByLatency(s, k) ==
    IF k > Len(s) THEN s
    ELSE InsertionSortByLatency(SiftByLatency(s, k), k+1)

SortByLatency(s) == InsertionSortByLatency(s, 2)

\* a slip: ScanPing returns without wg.Wait()
ScanReturnEarly ==
    /\ stage = "scan"
    /\ spawned = Len(ips)
    /\ Len(validNodes) > 0
    /\ stage' = "colo"
    /\ candidates' = SortByLatency(validNodes)
    /\ cworkers' = [k \in DOMAIN validNodes |-> "idle"]
    /\ traces' = [k \in DOMAIN validNodes |-> NoTrace]
    /\ events' = Send(events, "status")
    /\ spawned' = 0
    /\ workers' = <<>>
    /\ doneCount' = 0
    /\ validNodes' = <<>>
    /\ scanLog' = <<>>
    /\ UNCHANGED <<cfg, i, results, fastCount, skipped, rows, fastExits,
                   checked, blockedIds, benched, ret, entry, blockVars,
                   genVars, sem, mu, cspawned, csem, cdone, coloLog,
                   replies, query>>

\* wg.Wait() passes and ScanPing returns validNodes (its other locals are
\* gone); RunCLI and the /api/test handler stop when no node is valid (the
\* handler after sending "error"), and otherwise sort the slice by
\* latency, call it candidates and call DetectColo
ScanReturn ==
    /\ stage = "scan"
    /\ spawned = Len(ips)
    /\ \A k \in DOMAIN workers : workers[k].pc = "gone"
    /\ IF Len(validNodes) = 0
       THEN /\ stage' = IF cfg.WebMode THEN "closed" ELSE "done"
            /\ events' = Send(events, "error")
            /\ UNCHANGED <<candidates, cworkers, traces>>
       ELSE /\ stage' = "colo"
            /\ candidates' = SortByLatency(validNodes)
            /\ cworkers' = [k \in DOMAIN validNodes |-> "idle"]
            /\ traces' = [k \in DOMAIN validNodes |-> NoTrace]
            /\ events' = Send(events, "status")
    /\ spawned' = 0
    /\ workers' = <<>>
    /\ doneCount' = 0
    /\ validNodes' = <<>>
    /\ scanLog' = <<>>
    /\ UNCHANGED <<cfg, i, results, fastCount, skipped, rows, fastExits,
                   checked, blockedIds, benched, ret, entry, blockVars,
                   genVars, sem, mu, cspawned, csem, cdone, coloLog,
                   replies, query>>

---------------------------------------------------------------------------
(* GetColo and DetectColo.  A response to the trace request is a transport *)
(* failure or a sequence of lines; a line is what colo=([A-Z]+) captures   *)
(* in it ("" when it does not match) and whether it ends with a newline.   *)

Line(label, nl) == [colo |-> label, nl |-> nl]
Failed          == [err |-> TRUE, lines |-> <<>>]
Body(lines)     == [err |-> FALSE, lines |-> lines]

RECURSIVE ScanLines(_, _)
ScanLines(lines, k) ==
    IF k > Len(lines) \/ ~lines[k].nl THEN Unknown
    ELSE IF lines[k].colo # "" THEN lines[k].colo
    ELSE ScanLines(lines, k + 1)

GetColo(resp) == IF resp.err THEN ProbeError ELSE ScanLines(resp.lines, 1)

\* what the trace request may come to
TraceResponses ==
    { Failed,
      Body(<<Line("", TRUE)>>),
      Body(<<Line("", TRUE), Line("LAX", TRUE), Line("SJC", TRUE)>>) }

\* the environment of a run of DetectColo: the answers a trace request may
\* get, and the candidates whose request is still pending when the run is
\* last looked at (GetColo returns within its 3 s timeout; starting a
\* goroutine takes microseconds)
Net(answers, pending) == [answers |-> answers, pending |-> pending]

\* a slip: the goroutine is started without waiting for a slot
ColoSpawnFree ==
    /\ stage = "colo"
    /\ cspawned < Len(candidates)
    /\ csem' = csem + 1
    /\ cspawned' = cspawned + 1
    /\ cworkers' = [cworkers EXCEPT ![cspawned + 1] = "get"]
    /\ UNCHANGED <<stage, cfg, dlVars, blockVars, genVars, scanVars, cdone,
                   coloLog, replies, traces, webVars>>

\* wg.Add(1); sem <- struct{}{}; go func(idx)
ColoSpawn ==
    /\ stage = "colo"
    /\ cspawned < Len(candidates)
    /\ csem < ColoWidth
    /\ csem' = csem + 1
    /\ cspawned' = cspawned + 1
    /\ cworkers' = [cworkers EXCEPT ![cspawned + 1] = "get"]
    /\ UNCHANGED <<stage, cfg, dlVars, blockVars, genVars, scanVars, cdone,
                   coloLog, replies, traces, webVars>>

\* candidates[idx].Colo = GetColo(candidates[idx].IP, port)
ColoGet(k) ==
    /\ stage = "colo"
    /\ cworkers[k] = "get"
    /\ k \notin replies.pending
    /\ \E resp \in replies.answers :
         /\ candidates' = [candidates EXCEPT ![k].Colo = GetColo(resp)]
         /\ traces' = [traces EXCEPT ![k] = resp]
    /\ cworkers' = [cworkers EXCEPT ![k] = "count"]
    /\ UNCHANGED <<stage, cfg, i, results, fastCount, skipped, rows,
                   fastExits, checked, blockedIds, benched, ret, entry,
                   blockVars, genVars, scanVars, cspawned, csem, cdone,
                   coloLog, replies, webVars>>

\* d := done.Add(1); progressCallback(int(d), total) unless it is nil
\* (RunCLI passes nil)
ColoCount(k) ==
    /\ stage = "colo"
    /\ cworkers[k] = "count"
    /\ cdone' = cdone + 1
    /\ coloLog' = IF cfg.WebMode
                  THEN Append(coloLog, [done |-> cdone + 1,
                                        total |-> Len(candidates)])
                  ELSE coloLog
    /\ cworkers' = [cworkers EXCEPT ![k] = "exit"]
    /\ events' = IF (cdone + 1) % 5 = 0 \/ cdone + 1 = Len(candidates)
                 THEN Send(events, "progress_colo")
                 ELSE events
    /\ UNCHANGED <<stage, cfg, dlVars, blockVars, genVars, scanVars,
                   cspawned, csem, replies, traces, query>>

\* the deferred calls: <-sem, wg.Done()
ColoExit(k) ==
    /\ stage = "colo"
    /\ cworkers[k] = "exit"
    /\ csem' = csem - 1
    /\ cworkers' = [cworkers EXCEPT ![k] = "gone"]
    /\ UNCHANGED <<stage, cfg, dlVars, blockVars, genVars, scanVars,
                   cspawned, cdone, coloLog, replies, traces, webVars>>

\* wg.Wait() passes and DetectColo returns; RunCLI calls RunDownloadTest
ColoReturn ==
    /\ stage = "colo"
    /\ cspawned = Len(candidates)
    /\ \A k \in DOMAIN cworkers : cworkers[k] = "gone"
    /\ stage' = "test"
    /\ entry' = candidates
    /\ events' = Send(events, "status")
    /\ UNCHANGED <<cfg, candidates, i, results, fastCount, skipped, rows,
                   fastExits, checked, blockedIds, benched, ret, blockVars,
                   genVars, scanVars, coloVars, query>>

---------------------------------------------------------------------------
(* The /api/test handler.  It runs the stages of RunCLI on reqCfg, the     *)
(* server's Config overridden by the query parameters, and reports through *)
(* sendEvent.  The ResponseWriter of the net/http server is a Flusher.     *)

\* strconv.Atoi on the parameter values tried; its error is dropped, and
\* the value returned with an error is 0
Atoi(str) ==
    CASE str = "0" -> 0
      [] str = "1" -> 1
      [] str = "2" -> 2
      [] OTHER -> 0

\* reqCfg := cfg, then the parameters that are not empty
ReqCfg(c, q) ==
    [c EXCEPT !.MaxScan     = IF q.max # "" THEN Atoi(q.max) ELSE @,
              !.DownloadNum = IF q.dn # "" THEN Atoi(q.dn) ELSE @,
              !.URL         = IF q.url # "" THEN q.url ELSE @,
              !.Skip429     = IF q.skip429 # "" THEN q.skip429 = "true" ELSE @]

\* the handler up to the call of GenerateIPs
WebRequest ==
    /\ stage = "request"
    /\ cfg' = ReqCfg(cfg, query)
    /\ events' = Append(events, "status")
    /\ stage' = IF cfg.Unique THEN "unique" ELSE "bulk"
    /\ UNCHANGED <<dlVars, blockVars, genVars, scanVars, coloVars, query>>

\* the handler after RunDownloadTest returned
WebFinish ==
    /\ stage = "done"
    /\ cfg.WebMode
    /\ events' = IF Len(ret) = 0
                 THEN Append(events, "error")
                 ELSE Append(Append(events, "status"), "complete")
    /\ stage' = "closed"
    /\ UNCHANGED <<cfg, dlVars, blockVars, genVars, scanVars, coloVars, query>>

---------------------------------------------------------------------------
(* CalcScore and CheckBlocked called on their own. *)

ScoreOne ==
    /\ stage = "score"
    /\ candidates' = [candidates EXCEPT ![1] = CalcScore(candidates[1])]
    /\ stage' = "done"
    /\ UNCHANGED <<cfg, i, results, fastCount, skipped, rows, fastExits,
                   checked, blockedIds, benched, ret, entry, blockVars, genVars,
                   scanVars, coloVars, webVars>>

BlockOne ==
    /\ stage = "block"
    /\ blocked' = CheckBlocked(outcome)
    /\ stage' = "done"
    /\ UNCHANGED <<cfg, dlVars, outcome, genVars, scanVars, coloVars, webVars>>

---------------------------------------------------------------------------
(* Initial states. *)

\* DefaultConfig, with the fields the flags set
Config(dn, st, skip) ==
    [Port |-> DefaultPort, MaxScan |-> DefaultMaxScan, Unique |-> FALSE,
     ScanConcurrent |-> DefaultScanConcurrent, WebMode |-> FALSE,
     URL |-> DefaultURL,
     DownloadNum |-> dn, StopThreshold |-> st, Skip429 |-> skip]

DefaultConfig == Config(DefaultDownloadNum, DefaultStopThreshold, TRUE)

\* a candidate list as RunCLI hands it over: sorted by ascending latency,
\* PoP labels set by DetectColo, addresses possibly repeated
PoolColo(k) == <<"LAX", Unknown, "SJC", ProbeError, "">>[((k - 1) % 5) + 1]

PoolCandidate(k) ==
    NodeResult(k, <<10, 0, 0, (k % 4) + 1>>, DefaultPort,
               20 + 75 * ((k - 1) \div 2), PoolColo(k))

CandidateLists == { [k \in 1..n |-> PoolCandidate(k)] : n \in 0..MaxCands }

DLStart(cands) ==
    /\ candidates = cands
    /\ entry = cands
    /\ i = 1
    /\ results = <<>>
    /\ fastCount = 0
    /\ skipped = 0
    /\ rows = <<>>
    /\ fastExits = 0
    /\ checked = <<>>
    /\ blockedIds = {}
    /\ benched = <<>>
    /\ ret = <<>>

BlockIdle ==
    /\ outcome = ParseFailure
    /\ blocked = FALSE

GenStart(rs) ==
    /\ ranges = rs
    /\ ips = <<>>
    /\ seen = {}
    /\ attempts = 0
    /\ ri = 1
    /\ di = 0
    /\ pool = <<>>
    /\ derived = <<>>

GenIdle == GenStart(<<>>)

\* GenerateIPs has returned list
GenDone(list) ==
    /\ ranges = <<>>
    /\ ips = list
    /\ seen = {}
    /\ attempts = 0
    /\ ri = 1
    /\ di = 0
    /\ pool = <<>>
    /\ derived = <<>>

ScanIdle ==
    /\ spawned = 0
    /\ workers = <<>>
    /\ sem = 0
    /\ doneCount = 0
    /\ validNodes = <<>>
    /\ mu = 0
    /\ scanLog = <<>>

ColoIdle ==
    /\ cspawned = 0
    /\ cworkers = <<>>
    /\ csem = 0
    /\ cdone = 0
    /\ coloLog = <<>>
    /\ replies = Net(TraceResponses, {})
    /\ traces = <<>>

NoQuery == [max |-> "", dn |-> "", url |-> "", skip429 |-> ""]

WebIdle ==
    /\ events = <<>>
    /\ query = NoQuery

\* RunDownloadTest on a candidate list
Init ==
    /\ stage = "test"
    /\ cfg \in { [Config(dn, st, skip) EXCEPT !.URL = u] :
                 dn \in 0..MaxQuota, st \in {0, DefaultStopThreshold},
                 skip \in BOOLEAN, u \in URLs }
    /\ \E cands \in CandidateLists : DLStart(cands)
    /\ BlockIdle
    /\ GenIdle
    /\ ScanIdle
    /\ ColoIdle
    /\ WebIdle

Next == TestNone \/ TestDiscard \/ TestRecord \/ TestBenchmark \/ TestAbort

Spec == Init /\ [][Next]_vars

\* CalcScore on one NodeResult
InitScore ==
    /\ stage = "score"
    /\ cfg = DefaultConfig
    /\ \E speed \in 0..MaxSpeed, lat \in 1..MaxLat,
          colo \in {"LAX", Unknown, ProbeError, ""} :
         DLStart(<<[NodeResult(1, <<10, 0, 0, 1>>, DefaultPort, lat, colo)
                      EXCEPT !.DownloadSpeed = speed]>>)
    /\ BlockIdle
    /\ GenIdle
    /\ ScanIdle
    /\ ColoIdle
    /\ WebIdle

NextScore == ScoreOne

SpecScore == InitScore /\ [][NextScore]_vars

\* CheckBlocked on one request outcome
InitBlock ==
    /\ stage = "block"
    /\ cfg = DefaultConfig
    /\ DLStart(<<>>)
    /\ outcome \in {ParseFailure, TransportFailure}
                     \cup {Response(c) : c \in 100..MaxStatus}
    /\ blocked = FALSE
    /\ GenIdle
    /\ ScanIdle
    /\ ColoIdle
    /\ WebIdle

NextBlock == BlockOne

SpecBlock == InitBlock /\ [][NextBlock]_vars

\* the range lists GenerateIPs is run on: entries of the built-in table,
\* literals, a CIDR of at most 4 addresses, a malformed CIDR (addresses
\* below 128.0.0.0, whose 32-bit value fits the checker's integers)
RangeLists ==
    { <<CIDR(<<103, 21, 244, 0>>, 22)>>,
      <<CIDR(<<103, 21, 244, 0>>, 22), Literal(<<103, 21, 244, 1>>)>>,
      <<CIDR(<<104, 16, 0, 5>>, 30)>>,
      <<Literal(<<104, 16, 0, 1>>), Literal(<<104, 16, 0, 1>>)>>,
      <<CIDR(<<103, 21, 244, 0>>, 22), CIDR(<<103, 22, 200, 0>>, 33)>>,
      <<CIDR(<<103, 21, 244, 0>>, 22), CIDR(<<103, 22, 200, 0>>, 22)>> }

\* GenerateIPs on a range list
InitGen ==
    /\ \E n \in 0..MaxN, u \in BOOLEAN :
         /\ cfg = [DefaultConfig EXCEPT !.MaxScan = n, !.Unique = u]
         /\ stage = IF u THEN "unique" ELSE "bulk"
    /\ DLStart(<<>>)
    /\ BlockIdle
    /\ \E rs \in RangeLists : GenStart(rs)
    /\ ScanIdle
    /\ ColoIdle
    /\ WebIdle

NextGen == UniqueDraw \/ UniqueReturn \/ BulkDraw

SpecGen == InitGen /\ [][NextGen]_vars

\* the address lists ScanPing is run on
ScanLists == { [k \in 1..n |-> <<104, 16, 0, k>>] : n \in 0..MaxIps }

\* ScanPing on an address list, for every probe width from -1
InitScan ==
    /\ stage = "generated"
    /\ \E w \in -1..MaxWidth :
         cfg = [DefaultConfig EXCEPT !.ScanConcurrent = w]
    /\ DLStart(<<>>)
    /\ BlockIdle
    /\ \E list \in ScanLists : GenDone(list)
    /\ ScanIdle
    /\ ColoIdle
    /\ WebIdle

NextScan ==
    \/ StartScan \/ ScanAbort \/ ScanSpawn \/ ScanReturn
    \/ \E k \in DOMAIN workers :
         \/ ScanFirstPing(k) \/ ScanRetry(k) \/ ScanCount(k) \/ ScanLock(k)
         \/ ScanAppend(k) \/ ScanStore(k) \/ ScanReport(k) \/ ScanExit(k)

SpecScan == InitScan /\ [][NextScan]_vars

\* the scheduler runs a goroutine that can take a step
SpecScanFair == SpecScan /\ WF_vars(NextScan)

\* DetectColo on more candidates than it has slots, the requests of all
\* but the last slot's candidate and the candidates beyond still pending
WideList == [k \in 1..(ColoWidth + MaxOver) |-> [PoolCandidate(k) EXCEPT !.Colo = ""]]

\* ScanPing on an address list followed by DetectColo on the reachable
\* ones, or DetectColo on the wide list
InitWidth ==
    /\ BlockIdle
    /\ ScanIdle
    /\ WebIdle
    /\ i = 1
    /\ results = <<>>
    /\ fastCount = 0
    /\ skipped = 0
    /\ rows = <<>>
    /\ fastExits = 0
    /\ checked = <<>>
    /\ blockedIds = {}
    /\ benched = <<>>
    /\ ret = <<>>
    /\ entry = <<>>
    /\ cspawned = 0
    /\ csem = 0
    /\ cdone = 0
    /\ coloLog = <<>>
    /\ \/ /\ stage = "generated"
          /\ \E w \in 0..MaxWidth :
               cfg = [DefaultConfig EXCEPT !.ScanConcurrent = w]
          /\ \E list \in ScanLists : GenDone(list)
          /\ candidates = <<>>
          /\ cworkers = <<>>
          /\ traces = <<>>
          /\ replies = Net(TraceResponses, {})
       \/ /\ stage = "colo"
          /\ cfg = DefaultConfig
          /\ GenDone(<<>>)
          /\ candidates = WideList
          /\ cworkers = [k \in DOMAIN WideList |-> "idle"]
          /\ traces = [k \in DOMAIN WideList |-> NoTrace]
          /\ replies = Net(TraceResponses, 1..(ColoWidth - 1))

NextWidth ==
    \/ StartScan \/ ScanSpawn \/ ScanReturn
    \/ \E k \in DOMAIN workers :
         \/ ScanFirstPing(k) \/ ScanRetry(k) \/ ScanCount(k) \/ ScanLock(k)
         \/ ScanAppend(k) \/ ScanStore(k) \/ ScanReport(k) \/ ScanExit(k)
    \/ ColoSpawn \/ ColoReturn
    \/ \E k \in DOMAIN cworkers : ColoGet(k) \/ ColoCount(k) \/ ColoExit(k)

SpecWidth == InitWidth /\ [][NextWidth]_vars

\* what the trace request of DetectColo on its own may come to: as above,
\* and bodies whose last line is cut off or has no newline at its end
TraceBodies ==
    TraceResponses \cup
      { Body(<<Line("", TRUE), Line("LAX", FALSE)>>),
        Body(<<Line("SJC", TRUE), Line("LAX", FALSE)>>),
        Body(<<Line("", FALSE)>>),
        Body(<<>>) }

\* the candidate lists DetectColo is run on: sorted by latency, no label
ColoLists ==
    { [k \in 1..n |-> [PoolCandidate(k) EXCEPT !.Colo = ""]] : n \in 0..MaxColo }

\* DetectColo on a candidate list
InitColo ==
    /\ stage = "colo"
    /\ cfg = DefaultConfig
    /\ BlockIdle
    /\ GenDone(<<>>)
    /\ ScanIdle
    /\ WebIdle
    /\ i = 1
    /\ results = <<>>
    /\ fastCount = 0
    /\ skipped = 0
    /\ rows = <<>>
    /\ fastExits = 0
    /\ checked = <<>>
    /\ blockedIds = {}
    /\ benched = <<>>
    /\ ret = <<>>
    /\ entry = <<>>
    /\ cspawned = 0
    /\ csem = 0
    /\ cdone = 0
    /\ coloLog = <<>>
    /\ candidates \in ColoLists
    /\ cworkers = [k \in DOMAIN candidates |-> "idle"]
    /\ traces = [k \in DOMAIN candidates |-> NoTrace]
    /\ replies = Net(TraceBodies, {})

NextColo ==
    \/ ColoSpawn \/ ColoReturn
    \/ \E k \in DOMAIN cworkers : ColoGet(k) \/ ColoCount(k) \/ ColoExit(k)

SpecColo == InitColo /\ [][NextColo]_vars

\* the range lists RunCLI is run on
PipeRangeLists ==
    { <<CIDR(<<104, 16, 0, 5>>, 30)>>,
      <<Literal(<<104, 16, 0, 4>>), CIDR(<<104, 16, 0, 5>>, 30)>>,
      <<Literal(<<103, 21, 244, 1>>), CIDR(<<104, 16, 0, 5>>, 30)>> }

\* RunCLI: GenerateIPs, ScanPing, DetectColo, RunDownloadTest
InitPipe ==
    /\ \E n \in 0..MaxPipeN, u \in BOOLEAN, w \in 1..MaxWidth, skip \in BOOLEAN :
         /\ cfg = [DefaultConfig EXCEPT !.MaxScan = n, !.Unique = u,
                                        !.ScanConcurrent = w, !.Skip429 = skip]
         /\ stage = IF u THEN "unique" ELSE "bulk"
    /\ DLStart(<<>>)
    /\ BlockIdle
    /\ \E rs \in PipeRangeLists : GenStart(rs)
    /\ ScanIdle
    /\ ColoIdle
    /\ WebIdle

NextPipe ==
    \/ UniqueDraw \/ UniqueReturn \/ BulkDraw
    \/ StartScan \/ ScanSpawn \/ ScanReturn
    \/ \E k \in DOMAIN workers :
         \/ ScanFirstPing(k) \/ ScanRetry(k) \/ ScanCount(k) \/ ScanLock(k)
         \/ ScanAppend(k) \/ ScanStore(k) \/ ScanReport(k) \/ ScanExit(k)
    \/ ColoSpawn \/ ColoReturn
    \/ \E k \in DOMAIN cworkers : ColoGet(k) \/ ColoCount(k) \/ ColoExit(k)
    \/ TestDiscard \/ TestRecord \/ TestBenchmark

SpecPipe == InitPipe /\ [][NextPipe]_vars

\* the query strings the handler is run on
Queries ==
    { [max |-> m, dn |-> d, url |-> u, skip429 |-> k] :
        m \in {"1", "2", "x"}, d \in {"", "1", "x"}, u \in {"", "%zz"},
        k \in {"", "false"} }

\* a request to /api/test of a server started with -web
InitWeb ==
    /\ stage = "request"
    /\ \E u \in BOOLEAN :
         cfg = [DefaultConfig EXCEPT !.WebMode = TRUE, !.Unique = u]
    /\ DLStart(<<>>)
    /\ BlockIdle
    /\ GenStart(<<Literal(<<103, 21, 244, 1>>), CIDR(<<104, 16, 0, 5>>, 30)>>)
    /\ ScanIdle
    /\ ColoIdle
    /\ events = <<>>
    /\ query \in Queries

NextWeb ==
    \/ WebRequest
    \/ UniqueDraw \/ UniqueReturn \/ BulkDraw
    \/ StartScan \/ ScanSpawn \/ ScanReturn
    \/ \E k \in DOMAIN workers :
         \/ ScanFirstPing(k) \/ ScanRetry(k) \/ ScanCount(k) \/ ScanLock(k)
         \/ ScanAppend(k) \/ ScanStore(k) \/ ScanReport(k) \/ ScanExit(k)
    \/ ColoSpawn \/ ColoReturn
    \/ \E k \in DOMAIN cworkers : ColoGet(k) \/ ColoCount(k) \/ ColoExit(k)
    \/ TestDiscard \/ TestRecord \/ TestBenchmark \/ TestAbort
    \/ WebFinish

SpecWeb == InitWeb /\ [][NextWeb]_vars

---------------------------------------------------------------------------
(* The claims. *)

Done == stage = "done"

\* positions of s whose speed meets or exceeds the threshold
FastAt(s) == {k \in DOMAIN s : s[k].DownloadSpeed >= cfg.StopThreshold}

\* positions of s holding a benchmarked (not blocked) result whose speed
\* meets or exceeds the threshold
BenchFastAt(s) == {k \in FastAt(s) : s[k].id \notin blockedIds}

\* positions of s holding the value copied from candidate id
At(s, id) == {k \in DOMAIN s : s[k].id = id}

\* C1: with a quota Q >= 1, at least Q candidates, no candidate blocked and
\* fewer than 5 results at or above the fast-exit threshold, RunDownloadTest
\* returns exactly Q results.
C1_ExactQuota ==
    (/\ Done
     /\ cfg.DownloadNum >= 1
     /\ Len(entry) >= cfg.DownloadNum
     /\ blockedIds = {}
     /\ Cardinality(FastAt(ret)) < 5)
    => Len(ret) = cfg.DownloadNum

C1_Witness ==
    /\ Done
    /\ cfg.DownloadNum = 3
    /\ Len(entry) > 3
    /\ blockedIds = {}
    /\ Cardinality(FastAt(ret)) < 5
    /\ Len(ret) = 3

\* C2 as stated: once 5 accumulated results (blocked ones included) have a
\* speed at or above the threshold, the run has stopped and the fast-exit
\* signal has fired.
C2_Original ==
    Cardinality(FastAt(results)) >= 5 => (Done /\ fastExits = 1)

\* C2, amended: the count is of benchmarked results.  It never exceeds 5;
\* the moment it is 5 the run is over, the fast-exit signal has fired once
\* and the candidate that made it 5 is the last one tested; the signal
\* fires at most once and only then.
C2_FastExit ==
    /\ fastExits <= 1
    /\ Cardinality(BenchFastAt(results)) <= 5
    /\ (fastExits = 1) <=> (Cardinality(BenchFastAt(results)) = 5)
    /\ Cardinality(BenchFastAt(results)) = 5 =>
         /\ Done
         /\ Len(results) \in BenchFastAt(results)
         /\ checked[Len(checked)] = results[Len(results)].id
         /\ benched[Len(benched)] = results[Len(results)].id

C2_Witness ==
    /\ Done
    /\ fastExits = 1
    /\ Len(ret) < cfg.DownloadNum
    /\ Len(checked) < Len(entry)
    /\ \E k \in DOMAIN results : k < Len(results) /\ k \notin FastAt(results)

\* visits that ended in the panic of DownloadTest rather than in a result
\* or a discard (0 or 1: the panic ends the loop)
Aborted == IF stage = "panic" /\ checked # <<>> THEN 1 ELSE 0

\* C3: with Skip429 set, a candidate classified as blocked is in no list
\* (the accumulated results, the returned list, the row callbacks), takes
\* no quota slot (the results are exactly the unblocked candidates
\* visited), and never ends the loop unless it is the last candidate.
C3_Discard ==
    cfg.Skip429 =>
      /\ \A id \in blockedIds :
           At(results, id) = {} /\ At(ret, id) = {} /\ At(rows, id) = {}
      /\ Len(results) = Len(checked) - Cardinality(blockedIds) - Aborted
      /\ Len(rows) = Len(results)
      /\ (Done /\ checked # <<>> /\ checked[Len(checked)] \in blockedIds)
           => Len(checked) = Len(entry)
      /\ (Done /\ Len(checked) < Len(entry))
           => (fastExits = 1 \/ Len(ret) >= cfg.DownloadNum)

C3_Witness ==
    /\ Done
    /\ cfg.Skip429
    /\ cfg.DownloadNum = 2
    /\ Len(ret) = 2
    /\ Cardinality(blockedIds) = 2
    /\ 1 \in blockedIds
    /\ Len(checked) = 4

\* C4 as stated: with Skip429 not set, a blocked candidate is returned with
\* speed 0 and the rate-limited sentinel where its score is.
C4_Original ==
    (Done /\ ~cfg.Skip429) =>
      \A k \in DOMAIN ret :
        ret[k].id \in blockedIds =>
          /\ ret[k].DownloadSpeed = 0
          /\ ToString(ret[k].Score) = RateLimited

\* C4, amended: with Skip429 not set, every candidate visited and
\* classified as blocked is in the accumulated results and in the returned
\* list exactly once, with speed 0, score 0 and the rate-limited sentinel
\* in place of its PoP label; it is never benchmarked; it takes a quota
\* slot (every visited candidate is a result, and the loop stops at quota).
C4_Record ==
    ~cfg.Skip429 =>
      /\ \A id \in blockedIds :
           /\ Cardinality(At(results, id)) = 1
           /\ Cardinality(At(rows, id)) = 1
           /\ Done => Cardinality(At(ret, id)) = 1
           /\ \A k \in DOMAIN benched : benched[k] # id
      /\ \A s \in {results, ret, rows} : \A k \in DOMAIN s :
           s[k].id \in blockedIds =>
             /\ s[k].DownloadSpeed = 0
             /\ s[k].Score = 0
             /\ s[k].Colo = RateLimited
      /\ Len(results) = Len(checked) - Aborted
      /\ (results # <<>> /\ Len(results) >= cfg.DownloadNum) => Done

C4_Witness ==
    /\ Done
    /\ ~cfg.Skip429
    /\ cfg.DownloadNum = 3
    /\ Len(ret) = 3
    /\ Len(entry) > 3
    /\ Cardinality(blockedIds) = 2
    /\ ret[1].id \notin blockedIds

\* C5: the returned list is in non-increasing order of score and is a
\* reordering of the accumulated results.
C5_SortedPermutation ==
    Done =>
      /\ \A k \in 1..(Len(ret) - 1) : ret[k].Score >= ret[k+1].Score
      /\ Len(ret) = Len(results)
      /\ \A r \in {results[k] : k \in DOMAIN results} \cup {ret[k] : k \in DOMAIN ret} :
           Cardinality({k \in DOMAIN ret : ret[k] = r})
             = Cardinality({k \in DOMAIN results : results[k] = r})

C5_Witness ==
    /\ Done
    /\ Len(ret) >= 4
    /\ ret # results
    /\ fastExits = 0
    /\ blockedIds # {}
    /\ \E k \in 1..(Len(ret) - 1) : ret[k].Score = ret[k+1].Score

\* C6: the list RunCLI obtains from RunDownloadTest holds no two results
\* with the same address and port.
C6_NoDuplicates ==
    Done =>
      \A a, b \in DOMAIN ret :
        a # b => <<ret[a].IP, ret[a].Port>> # <<ret[b].IP, ret[b].Port>>

\* the number of positions of s holding x
Times(s, x) == Cardinality({k \in DOMAIN s : s[k] = x})

\* C7: in unique mode GenerateIPs holds at most MaxScan addresses, has made
\* at most 5*MaxScan draws, any two addresses derived from CIDR ranges
\* differ in their first three octets, and a literal entry is accepted at
\* most once.
C7_Unique ==
    (cfg.Unique /\ stage \in {"unique", "generated"}) =>
      /\ Len(ips) <= cfg.MaxScan
      /\ attempts <= 5 * cfg.MaxScan
      /\ \A a, b \in DOMAIN ips :
           (a # b /\ derived[a] /\ derived[b]) =>
             <<ips[a][1], ips[a][2], ips[a][3]>> # <<ips[b][1], ips[b][2], ips[b][3]>>
      /\ \A a, b \in DOMAIN ips :
           (a # b /\ ~derived[a] /\ ~derived[b]) => ips[a] # ips[b]

C7_Witness ==
    /\ stage = "generated"
    /\ cfg.Unique
    /\ cfg.MaxScan = 2
    /\ Len(ips) = 2
    /\ derived[1] /\ derived[2]
    /\ attempts > 2
    /\ ips[1][1] = ips[2][1]

\* C8: in bulk mode GenerateIPs with MaxScan = 0 returns the empty list; the
\* pool holds MaxScan/rangeCount + 3 draws per CIDR range and each literal
\* once; the returned list has min(MaxScan, pool size) elements (exactly
\* MaxScan when the pool is larger) and is included, as a multiset, in the
\* pool.
C8_Bulk ==
    (~cfg.Unique /\ stage = "generated") =>
      /\ cfg.MaxScan = 0 => ips = <<>>
      /\ Len(pool) =
           Cardinality({k \in DOMAIN ranges : ~ranges[k].cidr})
           + Cardinality({k \in DOMAIN ranges :
                            ranges[k].cidr /\ ranges[k].ones \in 0..32})
             * (cfg.MaxScan \div Len(ranges) + 3)
      /\ cfg.MaxScan < Len(pool) => Len(ips) = cfg.MaxScan
      /\ cfg.MaxScan >= Len(pool) => Len(ips) = Len(pool)
      /\ \A k \in DOMAIN ips : Times(ips, ips[k]) <= Times(pool, ips[k])

C8_Witness ==
    /\ stage = "generated"
    /\ ~cfg.Unique
    /\ cfg.MaxScan = 2
    /\ Len(ranges) = 2
    /\ Len(pool) = 8
    /\ Len(ips) = 2
    /\ ips # SubSeq(pool, 1, 2)
    /\ ips[1][2] # ips[2][2]

\* C9: CheckBlocked returns true for a transport failure and for every
\* status >= 400 (400, 403, 404 and 429 among them), false for every status
\* in 200..399 and for every other outcome.
C9_Classify ==
    Done =>
      /\ blocked <=> (\/ outcome.kind = "transport"
                      \/ outcome.kind = "status" /\ outcome.code >= 400)
      /\ (outcome.kind = "status" /\ outcome.code \in {400, 403, 404, 429})
           => blocked
      /\ (outcome.kind = "status" /\ outcome.code \in 200..399) => ~blocked

C9_Witness ==
    /\ Done
    /\ outcome = Response(503)
    /\ blocked

\* C10: score = 0.8*speedScore + 0.2*latencyScore + bonus, speedScore 100
\* from 40 MB/s on and speed/40*100 below, latencyScore
\* max(0, 100 - (latency-30)*0.5), bonus 5 for a resolved PoP label and 0
\* otherwise; score(40,30,LAX) = 105.0, score(20,50,LAX) = 63.0,
\* latencyScore 0 from 230 ms on, no clamp at 100.  (In hundredths, times
\* 40 where the speed is divided by 40.)
C10_Score ==
    Done =>
      LET n      == candidates[1]
          speed  == entry[1].DownloadSpeed
          lat    == entry[1].TCPLatency
          colo   == entry[1].Colo
          speed4 == IF speed >= 40 THEN 40 * 10000 ELSE speed * 10000
          latS   == IF 10000 - (lat - 30) * 50 > 0
                    THEN 10000 - (lat - 30) * 50 ELSE 0
          bonus  == IF colo \in {"UNK", "ERR", ""} THEN 0 ELSE 500
      IN  /\ 400 * n.Score = 8 * speed4 + 80 * latS + 400 * bonus
          /\ (speed = 40 /\ lat = 30 /\ colo = "LAX") => n.Score = 10500
          /\ (speed = 20 /\ lat = 50 /\ colo = "LAX") => n.Score = 6300
          /\ lat >= 230 => 400 * n.Score = 8 * speed4 + 400 * bonus
          /\ (speed >= 40 /\ lat <= 30 /\ bonus = 500) => n.Score >= 10500
          /\ [n EXCEPT !.Score = 0] = [entry[1] EXCEPT !.Score = 0]

C10_Witness ==
    /\ Done
    /\ Len(entry) = 1
    /\ entry[1].DownloadSpeed = 40
    /\ entry[1].TCPLatency = 30
    /\ entry[1].Colo = "LAX"
    /\ candidates[1].Score = 10500

---------------------------------------------------------------------------
(* C11: no operation of the per-candidate test stage aborts the pipeline:  *)
(* for every candidate RunDownloadTest visits and every test URL,          *)
(* CheckBlocked classifies it, DownloadTest yields a speed >= 0 and        *)
(* RunDownloadTest is on its way to returning the sorted list (it never    *)
(* ends in a panic).                                                       *)
C11_NoAbort ==
    /\ stage \in {"test", "done"}
    /\ Len(benched) + Cardinality(blockedIds) = Len(checked)
    /\ \A k \in DOMAIN results : results[k].DownloadSpeed >= 0
    /\ Done => ret = SortByScore(results)

---------------------------------------------------------------------------
\* the events that end a stream
Terminal == {"error", "complete"}

\* the handler has returned, or its goroutine has ended in a panic (the
\* server recovers it and closes the connection)
StreamOver == stage \in {"closed", "panic"}

TerminalAt == {k \in DOMAIN events : events[k] \in Terminal}

(* C12: every event stream served by /api/test emits exactly one terminal  *)
(* event ("error" or "complete"), and no event after it.                   *)
C12_OneTerminal ==
    /\ Cardinality(TerminalAt) <= 1
    /\ TerminalAt \subseteq {Len(events)}
    /\ StreamOver => Cardinality(TerminalAt) = 1

---------------------------------------------------------------------------
\* wg.Wait() has nothing left to wait for: ScanPing returns validNodes as
\* it is now
ScanOver ==
    /\ stage = "scan"
    /\ spawned = Len(ips)
    /\ \A k \in DOMAIN workers : workers[k].pc = "gone"

(* C13: across the successive invocations of the ScanPing progress sink,   *)
(* as the sink observes them, the completed-count and the reachable-so-far *)
(* count never decrease; the sink is invoked exactly once per candidate    *)
(* and the completed-count values are exactly 1..total with no repeats.    *)
C13_Monotone ==
    /\ \A a, b \in DOMAIN scanLog :
         a < b => /\ scanLog[a].done <= scanLog[b].done
                  /\ scanLog[a].valid <= scanLog[b].valid
    /\ \A a, b \in DOMAIN scanLog :
         a # b => scanLog[a].done # scanLog[b].done
    /\ ScanOver =>
         {scanLog[a].done : a \in DOMAIN scanLog} = 1..Len(ips)

---------------------------------------------------------------------------
\* the place of a position in the goroutine's code
PcRank(pc) ==
    CASE pc = "idle"   -> 0
      [] pc = "ping"   -> 1
      [] pc = "retry"  -> 2
      [] pc = "count"  -> 3
      [] pc = "lock"   -> 4
      [] pc = "append" -> 5
      [] pc = "store"  -> 6
      [] pc = "report" -> 7
      [] pc = "exit"   -> 8
      [] pc = "gone"   -> 9

\* the places of candidate k in a list of results
Slots(s, k) == {j \in DOMAIN s : s[j].id = k}

(* C14: under any interleaving of probe workers, ScanPing returns exactly  *)
(* one ProbeResult (latency > 0) for each candidate whose first connect    *)
(* attempt or single retry succeeded and none for any other candidate; a   *)
(* candidate gets at most two connect attempts (a goroutine leaves "ping"  *)
(* and "retry" once each, never going back), the second only after the     *)
(* first failed.                                                           *)
C14_Exact ==
    /\ [](ScanOver =>
            /\ \A k \in DOMAIN ips :
                 Cardinality(Slots(validNodes, k)) =
                   IF workers[k].lat > 0 THEN 1 ELSE 0
            /\ \A j \in DOMAIN validNodes :
                 /\ validNodes[j].id \in DOMAIN ips
                 /\ validNodes[j].TCPLatency > 0
                 /\ validNodes[j] =
                      NodeResult(validNodes[j].id, ips[validNodes[j].id],
                                 cfg.Port, workers[validNodes[j].id].lat, ""))
    /\ [](\A k \in DOMAIN workers :
            workers[k].pc = "retry" => workers[k].lat <= 0)
    /\ [][\A k \in DOMAIN workers \cap DOMAIN workers' :
            workers'[k].pc # workers[k].pc =>
              PcRank(workers'[k].pc) > PcRank(workers[k].pc)]_vars

\* both candidates are reachable and the second was appended first
C14_Witness ==
    /\ ScanOver
    /\ Len(validNodes) = 2
    /\ validNodes[1].id = 2
    /\ workers[1].lat > 0

---------------------------------------------------------------------------
\* goroutines of ScanPing started and not yet ended
ScanInFlight ==
    Cardinality({k \in DOMAIN workers : workers[k].pc \notin {"idle", "gone"}})

\* goroutines of DetectColo started and not yet ended
ColoInFlight ==
    Cardinality({k \in DOMAIN cworkers : cworkers[k] \notin {"idle", "gone"}})

(* C15: at every moment during ScanPing the number of probe workers in     *)
(* flight is at most the probe width W, and during DetectColo the number   *)
(* of resolver workers in flight is at most 20.                            *)
C15_Width ==
    /\ stage = "scan" => ScanInFlight <= cfg.ScanConcurrent
    /\ stage = "colo" => ColoInFlight <= ColoWidth

\* all 20 slots of DetectColo are taken and a candidate is waiting for one
C15_Witness ==
    /\ stage = "colo"
    /\ ColoInFlight = ColoWidth
    /\ cspawned < Len(candidates)

---------------------------------------------------------------------------
\* the ids of a list of candidates, in order
Ids(s) == [k \in DOMAIN s |-> s[k].id]

\* the block check of candidate id returned not-blocked
Passed(id) == id \notin blockedIds

(* C16: stages are fork-join and strictly ordered.  No metadata probe      *)
(* starts before every reachability probe has finished (no slot of         *)
(* ScanPing is held) and ScanPing has returned; no block check or          *)
(* benchmark starts before every metadata probe has finished; in the test  *)
(* stage the candidates are checked one by one in ascending-latency order, *)
(* and the benchmarks are those of the candidates whose own check returned *)
(* not-blocked, in the same order, each before the next candidate's check. *)
C16_Ordered ==
    /\ (cspawned > 0 \/ \E k \in DOMAIN cworkers : cworkers[k] # "idle") =>
         /\ stage \in {"colo", "test", "done", "panic"}
         /\ sem = 0
         /\ workers = <<>>
    /\ (Len(checked) > 0 \/ Len(benched) > 0) =>
         /\ stage \in {"test", "done", "panic"}
         /\ csem = 0
         /\ cspawned = Len(candidates)
         /\ \A k \in DOMAIN cworkers : cworkers[k] = "gone"
    /\ stage \in {"test", "done", "panic"} =>
         /\ \A a, b \in DOMAIN entry :
              a < b => entry[a].TCPLatency <= entry[b].TCPLatency
         /\ Len(checked) <= Len(entry)
         /\ checked = SubSeq(Ids(entry), 1, Len(checked))
         /\ benched = SelectSeq(checked, Passed)
         /\ stage = "test" => i = Len(checked) + 1

\* the run is over; the candidate found second was the faster one and was
\* blocked, the other was benchmarked
C16_Witness ==
    /\ Done
    /\ Len(entry) = 2
    /\ entry[1].id = 2
    /\ entry[1].TCPLatency < entry[2].TCPLatency
    /\ checked = <<2, 1>>
    /\ benched = <<1>>

---------------------------------------------------------------------------
\* the lines of a response that hold the colo token
Hits(lines) == {j \in DOMAIN lines : lines[j].colo # ""}

\* the label of the first line that holds the colo token
FirstColo(lines) ==
    lines[CHOOSE j \in Hits(lines) : \A h \in Hits(lines) : j <= h].colo

(* C17: after DetectColo returns, every candidate's PoP label has been set *)
(* (one GetColo call per candidate) and is the ProbeError sentinel iff the *)
(* request failed at transport level; otherwise the label of the first     *)
(* line of the response that holds the colo token, whenever any line holds *)
(* it; otherwise the Unknown sentinel.                                     *)
C17_Label ==
    stage = "test" =>
      /\ cdone = Len(entry)
      /\ \A k \in DOMAIN entry :
           /\ traces[k] # NoTrace
           /\ entry[k].Colo =
                IF traces[k].err THEN ProbeError
                ELSE IF Hits(traces[k].lines) # {}
                     THEN FirstColo(traces[k].lines)
                     ELSE Unknown

---------------------------------------------------------------------------
(* C18: for every configuration (any quota DownloadNum, either block       *)
(* policy, any candidate list), the list RunDownloadTest returns never     *)
(* contains more than DownloadNum results.                                 *)
C18_WithinQuota == Done => Len(ret) <= cfg.DownloadNum

---------------------------------------------------------------------------
(* C19: in every invocation of the ScanPing progress sink, under any       *)
(* interleaving of workers, validSoFar <= done <= total, and the           *)
(* invocation with done = total reports validSoFar equal to the number of  *)
(* results ScanPing returns.                                               *)
C19_Counts ==
    /\ \A a \in DOMAIN scanLog :
         /\ scanLog[a].valid <= scanLog[a].done
         /\ scanLog[a].done <= scanLog[a].total
    /\ ScanOver =>
         \A a \in DOMAIN scanLog :
           scanLog[a].done = scanLog[a].total =>
             scanLog[a].valid = Len(validNodes)

---------------------------------------------------------------------------
\* ScanPing has returned to its caller
ScanReturned == stage \in {"colo", "test", "done", "closed"}

(* C20: for every candidate list and every configured probe width          *)
(* (ScanConcurrent), ScanPing eventually returns, after every candidate    *)
(* has been probed (completed-count = total); the stage never deadlocks on *)
(* its concurrency slots.                                                  *)
C20_Returns ==
    /\ <>ScanReturned
    /\ [](ScanOver => doneCount = Len(ips))

=============================================================================
